---------------------------- MODULE Spec2Model ----------------------------
(***************************************************************************)
(* A model of src/src/utils/utils.py: the Timing stopwatch context, the   *)
(* GlobalCounters class attributes with reset(), and the Profiling        *)
(* context with its tabular export to_dataframe().                        *)
(*                                                                         *)
(* Each component has a specification of its own (the components share no *)
(* state): SpecTiming, SpecCounters, SpecRace (concurrent callers of the  *)
(* counters), SpecProfiling (an instance used for one scope) and SpecReuse *)
(* (an instance used for scope after scope).  In each the variables of the *)
(* other components stay at their initial values.                          *)
(*                                                                         *)
(* Conventions.                                                            *)
(*  - An attribute that may be None is None or Some(value); Val reads it.   *)
(*  - Times are integers: perf_counter_ns() in nanoseconds, profiler times *)
(*    in whole seconds, time_sum_s in whole seconds.                       *)
(*  - frac is the rational p_frac / FracDen; FracDen is a power of two, so *)
(*    the product len(func_list) * frac is exact in binary floating point  *)
(*    and int() of it is the truncation computed here.                     *)
(*  - A scope is a `with` block (or a decorated call): the caller enters,  *)
(*    runs the body, and exits; scopes on one instance follow one another. *)
(***************************************************************************)
EXTENDS Integers, Sequences, FiniteSets, TLC

VARIABLES
    \* ---- Timing instance and its caller
    t_prefix,       \* self.prefix
    t_enabled,      \* self.enabled
    t_st,           \* self.st   (None until the first __enter__)
    t_et,           \* self.et   (None until the first __exit__)
    clock,          \* time.perf_counter_ns()
    t_in,           \* the caller is inside the with-block
    t_stdout,       \* the lines print() has written
    t_raised,       \* the exception the caller sees after the with-block
    t_scopes,       \* history: with-blocks completed
    t_entry,        \* history: the clock reading when the current scope was entered
    t_exit,         \* history: the clock reading when the last scope was left
    \* ---- GlobalCounters class attributes
    global_ops,
    global_mem,
    time_sum_s,
    gc_last,        \* history: the last operation on the counters
    gc_before,      \* history: the counters before the last operation
    \* ---- callers incrementing global_ops (SpecRace)
    coordinated,    \* the callers serialize their operations with a lock of their own
    lock,           \* the callers' lock: 0 when free, else its holder
    th_pc,          \* per caller: "idle" | "loaded"
    th_reg,         \* per caller: the value LOAD_ATTR read
    th_left,        \* per caller: increments still to perform
    th_dirty,       \* history, per caller: what hit global_ops since its load
    g_total,        \* history: increments completed
    g_since,        \* history: increments completed after the last reset()
    g_resets,       \* history: reset() calls
    g_lost,         \* history: a store overwrote another caller's increment
    g_overwritten,  \* history: a store overwrote a reset()
    \* ---- Profiling instance and its caller
    p_enabled,      \* self.enabled
    p_sort,         \* self.sort
    p_rank,         \* self.rank
    p_frac,         \* self.frac, as a numerator over FracDen
    p_fn,           \* self.fn
    p_ts,           \* the constructor's ts
    p_time_scale,   \* self.time_scale
    p_stats_data,   \* self.stats_data: None, or the pstats.Stats object
    p_pr,           \* self.pr: "unset" | "created" | "running" | "stopped"
    p_in,           \* the caller is inside the with-block
    p_file,         \* the file self.fn names: None (absent) or the dumped statistics
    p_out,          \* standard output since the last __enter__: the functions listed
    p_events,       \* the calls the last __enter__ / __exit__ made on the profiler
    p_ret,          \* the outcome of the last operation (see Returned)
    p_exited        \* history: some scope on the instance has exited

timingVars   == <<t_prefix, t_enabled, t_st, t_et, clock, t_in, t_stdout,
                  t_raised, t_scopes, t_entry, t_exit>>
counterVars  == <<global_ops, global_mem, time_sum_s>>
counterHist  == <<gc_last, gc_before>>
raceVars     == <<coordinated, lock, th_pc, th_reg, th_left, th_dirty,
                  g_total, g_since, g_resets, g_lost, g_overwritten>>
profConfig   == <<p_enabled, p_sort, p_rank, p_frac, p_fn, p_ts, p_time_scale>>
profVars     == <<profConfig, p_stats_data, p_pr, p_in, p_file, p_out, p_events,
                  p_ret, p_exited>>

\* What an operation of one component leaves alone: the other components.
notTiming    == <<counterVars, counterHist, raceVars, profVars>>
notCounters  == <<timingVars, raceVars, profVars>>
notRace      == <<timingVars, profVars>>
notProfiling == <<timingVars, counterVars, counterHist, raceVars>>

\* Python's None, and a value that is not None.
None == <<>>
Some(x) == <<x>>

Min(a, b) == IF a <= b THEN a ELSE b
Max(a, b) == IF a >= b THEN a ELSE b

----------------------------------------------------------------------------
(***************************************************************************)
(* Bounds of the model.                                                    *)
(***************************************************************************)
MaxTicks  == 4      \* clock readings are 0 .. MaxTicks * TickNs
TickNs    == 4000   \* nanoseconds the clock advances in one step
MaxScopes == 3      \* with-blocks a Timing instance is used for
MaxOps    == 3      \* largest global_ops a caller writes
MaxMemK   == 2      \* largest global_mem a caller writes, in units of 1024
MaxSecs   == 2      \* largest time_sum_s a caller writes
IncsPerCaller == 2  \* k: increments each concurrent caller performs
MaxResets == 1      \* reset() calls concurrent with the increments
MaxFuncs  == 2      \* functions a profiled scope captures (at least one)
MaxTime   == 1      \* largest tottime / cumtime of a function, in seconds
MaxRank   == 3      \* largest rank an instance is constructed with
FracDen   == 2      \* frac is a multiple of 1 / FracDen

----------------------------------------------------------------------------
(***************************************************************************)
(* Timing (utils.py 10-29)                                                 *)
(***************************************************************************)
Prefixes == {"", "Processing time: "}

\* f"{self.et*1e-6:6.2f}": the elapsed nanoseconds as milliseconds rounded to
\* two decimals, given here in hundredths of a millisecond (10 000 ns each).
\* The readings of the model are never half-way between two hundredths.
FormatMs(et) == (et + 5000) \div 10000

\* The line print() writes at line 29.
TimingLine(prefix, et) == <<prefix, FormatMs(et), " ms">>

\* __exit__ has no return statement: it returns None, which is falsy, so the
\* with statement (and ContextDecorator) re-raises the body's exception.
TimingExitSuppresses == FALSE

TimingInit ==
    /\ t_prefix \in Prefixes
    /\ t_enabled \in BOOLEAN
    /\ t_st = None
    /\ t_et = None
    /\ clock = 0
    /\ t_in = FALSE
    /\ t_stdout = <<>>
    /\ t_raised = FALSE
    /\ t_scopes = 0
    /\ t_entry = None
    /\ t_exit = None

\* The clock advances (the body of the scope, or the caller between scopes, runs).
Tick ==
    /\ clock < MaxTicks * TickNs
    /\ clock' = clock + TickNs
    /\ UNCHANGED <<t_prefix, t_enabled, t_st, t_et, t_in, t_stdout, t_raised,
                   t_scopes, t_entry, t_exit>>
    /\ UNCHANGED notTiming

\* Timing.__enter__
TimingEnter ==
    /\ ~t_in
    /\ t_scopes < MaxScopes
    /\ t_st' = Some(clock)
    /\ t_in' = TRUE
    /\ t_entry' = Some(clock)
    /\ t_raised' = FALSE
    /\ UNCHANGED <<t_prefix, t_enabled, t_et, clock, t_stdout, t_scopes, t_exit>>
    /\ UNCHANGED notTiming

\* Printing without looking at self.enabled.
TimingPrintedAlways(et) == <<TimingLine(t_prefix, et)>>

\* What __exit__ adds to standard output.
TimingPrinted(et) == IF t_enabled THEN <<TimingLine(t_prefix, et)>> ELSE <<>>

\* Timing.__exit__(*exc); exc says whether the body raised.
TimingExit(exc) ==
    /\ t_in
    /\ t_et' = Some(clock - t_st[1])
    /\ t_stdout' = t_stdout \o TimingPrinted(clock - t_st[1])
    /\ t_in' = FALSE
    /\ t_raised' = (exc /\ ~TimingExitSuppresses)
    /\ t_scopes' = t_scopes + 1
    /\ t_exit' = Some([entered |-> t_entry[1], at |-> clock, exc |-> exc])
    /\ UNCHANGED <<t_prefix, t_enabled, t_st, clock, t_entry>>
    /\ UNCHANGED notTiming

TimingNext ==
    \/ Tick
    \/ TimingEnter
    \/ \E exc \in BOOLEAN : TimingExit(exc)

----------------------------------------------------------------------------
(***************************************************************************)
(* GlobalCounters (utils.py 32-56)                                         *)
(***************************************************************************)
CountersInit ==
    /\ global_ops = 0
    /\ global_mem = 0
    /\ time_sum_s = 0
    /\ gc_last = "init"
    /\ gc_before = None

\* A lost reset of one field: reset() that forgets time_sum_s.
ResetValuesKeepTime ==
    [global_ops |-> 0, global_mem |-> 0, time_sum_s |-> time_sum_s]

\* A lost reset of one field: reset() that forgets global_ops.
ResetValuesKeepOps ==
    [global_ops |-> global_ops, global_mem |-> 0, time_sum_s |-> 0]

\* The three assignments of reset().
ResetValues == [global_ops |-> 0, global_mem |-> 0, time_sum_s |-> 0]

Counters == [global_ops |-> global_ops, global_mem |-> global_mem,
             time_sum_s |-> time_sum_s]

\* GlobalCounters.reset()
reset ==
    /\ global_ops' = ResetValues.global_ops
    /\ global_mem' = ResetValues.global_mem
    /\ time_sum_s' = ResetValues.time_sum_s
    /\ gc_last' = IF gc_last \in {"reset", "reset_again"} THEN "reset_again"
                  ELSE "reset"
    /\ gc_before' = Some(Counters)
    /\ UNCHANGED notCounters

\* Callers write the class attributes directly.
WriteOps(v) ==
    /\ global_ops' = v
    /\ gc_last' = "write"
    /\ gc_before' = Some(Counters)
    /\ UNCHANGED notCounters
    /\ UNCHANGED <<global_mem, time_sum_s>>

WriteMem(v) ==
    /\ global_mem' = v
    /\ gc_last' = "write"
    /\ gc_before' = Some(Counters)
    /\ UNCHANGED notCounters
    /\ UNCHANGED <<global_ops, time_sum_s>>

WriteTime(v) ==
    /\ time_sum_s' = v
    /\ gc_last' = "write"
    /\ gc_before' = Some(Counters)
    /\ UNCHANGED notCounters
    /\ UNCHANGED <<global_ops, global_mem>>

CountersNext ==
    \/ reset
    \/ \E v \in 0 .. MaxOps : WriteOps(v)
    \/ \E k \in 0 .. MaxMemK : WriteMem(1024 * k)
    \/ \E v \in 0 .. MaxSecs : WriteTime(v)

----------------------------------------------------------------------------
(***************************************************************************)
(* Callers of GlobalCounters (SpecRace).  The class docstring gives the    *)
(* increment a caller performs, GlobalCounters.global_ops += 1: the        *)
(* interpreter loads the attribute, adds, and stores the attribute, and    *)
(* another thread may run between the load and the store.  The class has   *)
(* no lock; `coordinated` callers bring one of their own and hold it       *)
(* across each increment and each reset().                                 *)
(***************************************************************************)
Callers == {1, 2}

RaceInit ==
    /\ coordinated \in BOOLEAN
    /\ lock = 0
    /\ th_pc = [t \in Callers |-> "idle"]
    /\ th_reg = [t \in Callers |-> 0]
    /\ th_left = [t \in Callers |-> IncsPerCaller]
    /\ th_dirty = [t \in Callers |-> "clean"]
    /\ g_total = 0
    /\ g_since = 0
    /\ g_resets = 0
    /\ g_lost = FALSE
    /\ g_overwritten = FALSE

\* Every caller strictly between its load and its store.
Loaded(t) == th_pc[t] = "loaded"

\* The first half of `GlobalCounters.global_ops += 1`: read the attribute.
IncLoad(t) ==
    /\ th_pc[t] = "idle"
    /\ th_left[t] > 0
    /\ coordinated => lock = 0
    /\ lock' = IF coordinated THEN t ELSE lock
    /\ th_reg' = [th_reg EXCEPT ![t] = global_ops]
    /\ th_pc' = [th_pc EXCEPT ![t] = "loaded"]
    /\ th_dirty' = [th_dirty EXCEPT ![t] = "clean"]
    /\ UNCHANGED <<coordinated, th_left, g_total, g_since, g_resets, g_lost,
                   g_overwritten>>
    /\ UNCHANGED <<counterVars, counterHist>>
    /\ UNCHANGED notRace

\* The second half: store the value read plus one.
IncStore(t) ==
    /\ th_pc[t] = "loaded"
    /\ global_ops' = th_reg[t] + 1
    /\ lock' = IF coordinated THEN 0 ELSE lock
    /\ th_pc' = [th_pc EXCEPT ![t] = "idle"]
    /\ th_left' = [th_left EXCEPT ![t] = @ - 1]
    /\ th_dirty' = [u \in Callers |->
                      IF u # t /\ Loaded(u) /\ th_dirty[u] = "clean"
                      THEN "inc" ELSE th_dirty[u]]
    /\ g_total' = g_total + 1
    /\ g_since' = g_since + 1
    /\ g_lost' = (g_lost \/ th_dirty[t] = "inc")
    /\ g_overwritten' = (g_overwritten \/ th_dirty[t] = "reset")
    /\ UNCHANGED <<coordinated, th_reg, g_resets>>
    /\ UNCHANGED <<global_mem, time_sum_s, counterHist>>
    /\ UNCHANGED notRace

\* reset() called by some thread while the callers increment.
RaceReset ==
    /\ g_resets < MaxResets
    /\ coordinated => lock = 0
    /\ global_ops' = ResetValues.global_ops
    /\ global_mem' = ResetValues.global_mem
    /\ time_sum_s' = ResetValues.time_sum_s
    /\ th_dirty' = [u \in Callers |-> IF Loaded(u) THEN "reset" ELSE th_dirty[u]]
    /\ g_since' = 0
    /\ g_resets' = g_resets + 1
    /\ UNCHANGED <<coordinated, lock, th_pc, th_reg, th_left, g_total, g_lost,
                   g_overwritten, counterHist>>
    /\ UNCHANGED notRace

RaceNext ==
    \/ \E t \in Callers : IncLoad(t)
    \/ \E t \in Callers : IncStore(t)
    \/ RaceReset

AllDone == \A t \in Callers : th_pc[t] = "idle" /\ th_left[t] = 0

----------------------------------------------------------------------------
(***************************************************************************)
(* Profiling (utils.py 58-141)                                             *)
(*                                                                         *)
(* The profiler's raw statistics are a dict from function key              *)
(* (file, line, name) to (primitive calls, total calls, tottime, cumtime,  *)
(* callers); here a sequence of records in the dict's iteration order.     *)
(* Function k of a workload has calls fixed by k; the times are free.      *)
(* Keys are distinct after strip_dirs().  A scope always captures at       *)
(* least one function: the call of disable() at line 109 is itself         *)
(* recorded.                                                               *)
(***************************************************************************)
SortKeys == {"cumtime", "tottime"}      \* keys sort_stats() accepts
FileNames == {None, Some("out.prof")}
TsValues == {1, 2}                      \* divisors of 1000: 1e3 / ts is exact
Ranks == -1 .. MaxRank
Fracs == -1 .. FracDen + 1              \* numerators: -1/FracDen .. 1 + 1/FracDen

FuncKey(k) == [file |-> "work.py", line |-> k, name |-> "f"]

TimePairs == {tc \in (0 .. MaxTime) \X (0 .. MaxTime) : tc[1] <= tc[2]}

RawStat(k, tc) ==
    [func |-> FuncKey(k), primitive_calls |-> 1, total_calls |-> k,
     tottime |-> tc[1], cumtime |-> tc[2]]

\* The statistics a scope can capture.
Captures ==
    UNION {{[k \in 1 .. n |-> RawStat(k, f[k])] : f \in [1 .. n -> TimePairs]} :
           n \in 1 .. MaxFuncs}

\* int(x) for x = num / den, den > 0: truncation towards zero.
IntOf(num, den) == IF num >= 0 THEN num \div den ELSE 0 - ((0 - num) \div den)

\* A stable sort of seq into descending order of keys (keys[i] is the key of
\* seq[i]): where an element lands is the number of elements with a larger
\* key, plus the equal ones before it.  list.sort is stable; for sort_values
\* the order of equal keys is the library's, fixed for a given input.
SortedDesc(seq, keys) ==
    LET n == Len(seq)
        Pos(i) == Cardinality({j \in 1 .. n : keys[j] > keys[i]})
                  + Cardinality({j \in 1 .. i : keys[j] = keys[i]})
    IN  [p \in 1 .. n |-> seq[CHOOSE i \in 1 .. n : Pos(i) = p]]

StatKey(sort, stat) == IF sort = "tottime" THEN stat.tottime ELSE stat.cumtime

\* pstats.Stats(pr).strip_dirs().sort_stats(sort): the statistics, and
\* fcn_list, the function keys in descending order of the sort key.
StatsObject(captured, sort) ==
    LET keys == [i \in 1 .. Len(captured) |-> StatKey(sort, captured[i])]
        sorted == SortedDesc(captured, keys)
    IN  [stats |-> captured,
         fcn_list |-> [i \in 1 .. Len(captured) |-> sorted[i].func]]

\* Stats.print_stats(sel) for an integer sel: the first sel functions of
\* fcn_list when 0 <= sel < len(fcn_list), and the whole list otherwise.
PrintStats(fcn_list, sel) ==
    IF 0 <= sel /\ sel < Len(fcn_list) THEN SubSeq(fcn_list, 1, sel) ELSE fcn_list

\* A limit that leaves frac out.
LimitWithoutFrac(fcn_list) == Len(fcn_list)

\* limit = int(len(func_list) * self.frac)
Limit(fcn_list) == IntOf(Len(fcn_list) * p_frac, FracDen)

\* The argument of print_stats at line 117.
PrintAmount(fcn_list) == Min(p_rank, Limit(fcn_list))

\* A head that takes a negative n for zero.
headClamped(rows, n) == SubSeq(rows, 1, Max(0, Min(n, Len(rows))))

\* DataFrame.head(n): the first n rows, or for n < 0 all but the last -n rows.
head(rows, n) ==
    IF n >= 0 THEN SubSeq(rows, 1, Min(n, Len(rows)))
    ELSE SubSeq(rows, 1, Max(0, Len(rows) + n))

\* One row of to_dataframe (lines 126-132).  The "function" column is the
\* string f"{name} ({file}:{line})", kept as its three parts in that order.
Row(stat) ==
    [function |-> <<stat.func.name, stat.func.file, stat.func.line>>,
     primitive_calls |-> stat.primitive_calls,
     total_calls |-> stat.total_calls,
     tottime_ms |-> stat.tottime * p_time_scale,
     cumtime_ms |-> stat.cumtime * p_time_scale]

\* rows, in the iteration order of stats_data.stats (lines 124-132).
Rows(stats) == [i \in 1 .. Len(stats) |-> Row(stats[i])]

\* The rows left in the order of the statistics.
SortValuesSkipped(rows) == rows

\* df.sort_values(by="cumtime_ms", ascending=False) (line 138).
SortValues(rows) ==
    SortedDesc(rows, [i \in 1 .. Len(rows) |-> rows[i].cumtime_ms])

\* What to_dataframe returns for populated stats_data (lines 124-141).
DataFrame(sd) == head(SortValues(Rows(sd.stats)), p_rank)

\* __exit__ has no return statement: the body's exception is re-raised.
ProfilingExitSuppresses == FALSE

\* The outcome of an operation: what it returned ("None", "self",
\* "DataFrame" with its rows) or raised ("ValueError"); for __exit__, whether
\* the body raised and whether the caller sees that exception; for
\* to_dataframe, how many calls in a row this is (1, or 2 for any later one).
Returned(op, result, rows) ==
    [op |-> op, result |-> result, rows |-> rows,
     raised |-> FALSE, propagates |-> FALSE, calls |-> 0]

ProfilingInit ==
    /\ p_enabled \in BOOLEAN
    /\ p_sort \in SortKeys
    /\ p_rank \in Ranks
    /\ p_frac \in Fracs
    /\ p_fn \in FileNames
    /\ p_ts \in TsValues
    /\ p_time_scale = 1000 \div p_ts
    /\ p_stats_data = None
    /\ p_pr = "unset"
    /\ p_in = FALSE
    /\ p_file = None
    /\ p_out = <<>>
    /\ p_events = <<>>
    /\ p_ret = Returned("__init__", "None", <<>>)
    /\ p_exited = FALSE

\* Profiling.__enter__ (lines 101-105)
ProfilingEnter ==
    /\ ~p_in
    /\ p_in' = TRUE
    /\ p_pr' = IF p_enabled THEN "running" ELSE "created"
    /\ p_events' = IF p_enabled THEN <<"enable">> ELSE <<>>
    /\ p_out' = <<>>
    /\ p_ret' = Returned("__enter__", "self", <<>>)
    /\ UNCHANGED <<profConfig, p_stats_data, p_file, p_exited>>
    /\ UNCHANGED notProfiling

\* Statistics kept without looking at self.enabled.
ExitStatsDataAlways(captured) == Some(StatsObject(captured, p_sort))

\* self.stats_data after __exit__ (lines 108, 112).
ExitStatsData(captured) ==
    IF p_enabled THEN Some(StatsObject(captured, p_sort)) ELSE p_stats_data

\* The dump written without looking at self.enabled.
ExitFileAlways(captured) == IF p_fn # None THEN Some(captured) ELSE p_file

\* The file after __exit__ (lines 108, 110-111).
ExitFile(captured) ==
    IF p_enabled /\ p_fn # None THEN Some(captured) ELSE p_file

\* The dump taken while the profiler still runs.
ExitEventsDumpFirst ==
    IF p_enabled
    THEN (IF p_fn # None THEN <<"dump_stats">> ELSE <<>>)
         \o <<"disable", "sort_stats", "print_stats">>
    ELSE <<>>

\* The calls __exit__ makes, in order (lines 108-117).
ExitEvents ==
    IF p_enabled
    THEN <<"disable">> \o (IF p_fn # None THEN <<"dump_stats">> ELSE <<>>)
         \o <<"sort_stats", "print_stats">>
    ELSE <<>>

\* What __exit__ prints (lines 108, 115-117).
ExitPrinted(captured) ==
    IF p_enabled
    THEN LET fcn_list == StatsObject(captured, p_sort).fcn_list
         IN  PrintStats(fcn_list, PrintAmount(fcn_list))
    ELSE <<>>

\* Profiling.__exit__(*exc) (lines 107-117); captured is what the profiler
\* recorded during the scope, exc says whether the body raised.
ProfilingExit(captured, exc) ==
    /\ p_in
    /\ p_in' = FALSE
    /\ p_pr' = IF p_enabled THEN "stopped" ELSE p_pr
    /\ p_file' = ExitFile(captured)
    /\ p_stats_data' = ExitStatsData(captured)
    /\ p_out' = ExitPrinted(captured)
    /\ p_events' = ExitEvents
    /\ p_ret' = [Returned("__exit__", "None", <<>>) EXCEPT
                    !.raised = exc,
                    !.propagates = (exc /\ ~ProfilingExitSuppresses)]
    /\ p_exited' = TRUE
    /\ UNCHANGED profConfig
    /\ UNCHANGED notProfiling

\* What to_dataframe returns or raises (lines 120-141).
ToDataframeResult ==
    IF p_stats_data = None
    THEN Returned("to_dataframe", "ValueError", <<>>)
    ELSE Returned("to_dataframe", "DataFrame", DataFrame(p_stats_data[1]))

\* An export that hands the statistics over and forgets them.
to_dataframe_consuming ==
    /\ p_ret' = [ToDataframeResult EXCEPT
                    !.calls = IF p_ret.op = "to_dataframe" THEN 2 ELSE 1]
    /\ p_stats_data' = None
    /\ UNCHANGED <<profConfig, p_pr, p_in, p_file, p_out, p_events, p_exited>>
    /\ UNCHANGED notProfiling

\* Profiling.to_dataframe (lines 119-141)
to_dataframe ==
    /\ p_ret' = [ToDataframeResult EXCEPT
                    !.calls = IF p_ret.op = "to_dataframe" THEN 2 ELSE 1]
    /\ UNCHANGED <<profConfig, p_stats_data, p_pr, p_in, p_file, p_out, p_events,
                   p_exited>>
    /\ UNCHANGED notProfiling

\* An instance used for one scope: every capture, every outcome of the body.
FirstEnter == ~p_exited /\ ProfilingEnter

ProfilingNext ==
    \/ FirstEnter
    \/ \E captured \in Captures, exc \in BOOLEAN : ProfilingExit(captured, exc)
    \/ to_dataframe

\* An instance used for scope after scope (a decorator, or a handle kept
\* across with-blocks).  The captures differ in the number of functions only.
ReuseCaptures ==
    {c \in Captures : \A k \in 1 .. Len(c) : c[k].tottime = 0 /\ c[k].cumtime = MaxTime}

ReuseNext ==
    \/ ProfilingEnter
    \/ \E captured \in ReuseCaptures, exc \in BOOLEAN : ProfilingExit(captured, exc)
    \/ to_dataframe

----------------------------------------------------------------------------
(***************************************************************************)
(* Specifications                                                          *)
(***************************************************************************)
vars == <<timingVars, counterVars, counterHist, raceVars, profVars>>

\* A component nobody uses: constructed with its defaults (Timing) or without
\* concurrent callers.
TimingRest ==
    /\ t_prefix = "" /\ t_enabled = TRUE /\ t_st = None /\ t_et = None
    /\ clock = 0 /\ t_in = FALSE /\ t_stdout = <<>> /\ t_raised = FALSE
    /\ t_scopes = 0 /\ t_entry = None /\ t_exit = None

RaceRest ==
    /\ coordinated = FALSE /\ lock = 0
    /\ th_pc = [t \in Callers |-> "idle"]
    /\ th_reg = [t \in Callers |-> 0]
    /\ th_left = [t \in Callers |-> 0]
    /\ th_dirty = [t \in Callers |-> "clean"]
    /\ g_total = 0 /\ g_since = 0 /\ g_resets = 0
    /\ g_lost = FALSE /\ g_overwritten = FALSE

ProfilingRest ==
    /\ p_enabled = TRUE /\ p_sort = "cumtime" /\ p_rank = MaxRank
    /\ p_frac = FracDen /\ p_fn = None /\ p_ts = 1 /\ p_time_scale = 1000
    /\ p_stats_data = None /\ p_pr = "unset" /\ p_in = FALSE /\ p_file = None
    /\ p_out = <<>> /\ p_events = <<>> /\ p_ret = Returned("__init__", "None", <<>>)
    /\ p_exited = FALSE

InitTiming    == TimingInit /\ CountersInit /\ RaceRest /\ ProfilingRest
InitCounters  == TimingRest /\ CountersInit /\ RaceRest /\ ProfilingRest
InitRace      == TimingRest /\ CountersInit /\ RaceInit /\ ProfilingRest
InitProfiling == TimingRest /\ CountersInit /\ RaceRest /\ ProfilingInit

SpecTiming   == InitTiming /\ [][TimingNext]_vars
SpecCounters == InitCounters /\ [][CountersNext]_vars
SpecRace     == InitRace /\ [][RaceNext]_vars
SpecProfiling == InitProfiling /\ [][ProfilingNext]_vars
SpecReuse     == InitProfiling /\ [][ReuseNext]_vars

----------------------------------------------------------------------------
(***************************************************************************)
(* Properties                                                              *)
(***************************************************************************)
\* The statistics, rows and counts the Profiling properties speak of.
Stats == p_stats_data[1].stats
FcnList == p_stats_data[1].fcn_list
Total == Len(Stats)
Printed == Len(p_out)
Exported == Len(p_ret.rows)
Finalized == p_enabled /\ p_exited /\ ~p_in
AfterExit == Finalized /\ p_ret.op = "__exit__"
AfterExport == Finalized /\ p_ret.op = "to_dataframe"
RankInRange == p_rank >= 0
FracInRange == 0 <= p_frac /\ p_frac <= FracDen
\* floor(total * frac)
FloorLimit == (Total * p_frac) \div FracDen

\* C1, as stated: stats_data is None, and to_dataframe() raises ValueError,
\* wherever the instance is disabled or the scope in progress has not yet
\* exited - also in a scope entered after an earlier one exited.
C1_NoneWhileScopeOpen ==
    (~p_enabled \/ p_in \/ ~p_exited) =>
        /\ p_stats_data = None
        /\ p_ret.op = "to_dataframe" => p_ret.result = "ValueError"

\* C1, amended: stats_data is None, and to_dataframe() raises ValueError,
\* wherever the instance is disabled or no scope on it has exited yet.  Once
\* a scope of an enabled instance has exited, stats_data stays populated, also
\* inside a later scope, and to_dataframe() returns rows there.
C1_NoneUntilFirstExit ==
    /\ (~p_enabled \/ ~p_exited) =>
          /\ p_stats_data = None
          /\ p_ret.op = "to_dataframe" => p_ret.result = "ValueError"
    /\ (p_enabled /\ p_exited) =>
          /\ p_stats_data # None
          /\ p_ret.op = "to_dataframe" => p_ret.result = "DataFrame"

\* to_dataframe() raised inside the first scope of an enabled instance.
C1_Witness ==
    p_enabled /\ p_in /\ ~p_exited /\ p_ret.op = "to_dataframe"
    /\ p_ret.result = "ValueError"

\* What a disabled instance never has: statistics, a running profiler, a
\* dump file, output, calls on the profiler, or rows.
DisabledInert ==
    ~p_enabled =>
        /\ p_stats_data = None
        /\ p_pr \in {"unset", "created"}
        /\ p_file = None
        /\ p_out = <<>>
        /\ p_events = <<>>
        /\ p_ret.op = "to_dataframe" => p_ret.result = "ValueError" /\ p_ret.rows = <<>>
        /\ p_ret.op = "__exit__" => p_ret.propagates = p_ret.raised

\* C2: a disabled instance, after any number of scopes with normal or
\* exceptional exits, has stats_data None; its scope exit stops nothing,
\* writes no file and prints nothing; to_dataframe() raises ValueError and
\* leaves every attribute as it was.
C2_DisabledNoOp ==
    /\ []DisabledInert
    /\ [][(~p_enabled /\ p_ret'.op = "to_dataframe") =>
            UNCHANGED <<profConfig, p_stats_data, p_pr, p_in, p_file, p_out,
                        p_events, p_exited>>]_vars

\* to_dataframe() on a disabled instance given a file name, inside its
\* second scope.
C2_Witness ==
    ~p_enabled /\ p_fn # None /\ p_exited /\ p_in /\ p_ret.op = "to_dataframe"
    /\ p_ret.calls = 2

\* C3: a Timing instance used for n scopes in sequence has printed n lines
\* when enabled and none when disabled, however the scopes exit; each exit
\* sets the elapsed time to the exit reading minus the reading at that
\* scope's entry (the line printed shows it), and the body's exception
\* reaches the caller.
C3_TimingLines ==
    /\ Len(t_stdout) = IF t_enabled THEN t_scopes ELSE 0
    /\ t_scopes > 0 =>
          /\ t_et = Some(t_exit[1].at - t_exit[1].entered)
          /\ t_enabled => t_stdout[t_scopes] = <<t_prefix, FormatMs(t_et[1]), " ms">>
    /\ (t_scopes > 0 /\ ~t_in) => t_raised = t_exit[1].exc
    /\ t_in => t_st = t_entry

\* A disabled instance after two scopes, the last left by an exception after
\* the clock moved.
C3_Witness ==
    ~t_enabled /\ t_scopes = 2 /\ ~t_in /\ t_exit[1].exc /\ t_raised
    /\ t_et[1] > 0 /\ t_exit[1].entered > 0

\* C4: after reset(), whatever the callers wrote before, global_ops,
\* global_mem and time_sum_s are zero; a reset() right after a reset()
\* changes nothing.
C4_ResetZeroes ==
    /\ gc_last \in {"reset", "reset_again"} =>
          global_ops = 0 /\ global_mem = 0 /\ time_sum_s = 0
    /\ gc_last = "reset_again" => Some(Counters) = gc_before

\* reset() called with all three counters written to non-zero values.
C4_Witness ==
    /\ gc_last = "reset"
    /\ gc_before[1].global_ops > 0
    /\ gc_before[1].global_mem > 0
    /\ gc_before[1].time_sum_s > 0

\* C5, as stated: with rank >= 0 and frac in [0,1], scope exit prints
\* min(rank, floor(total * frac)) rows, to_dataframe() returns
\* min(rank, total) rows, and the two agree exactly when total * frac >= rank.
C5_LimitsAgreeOnlyAboveRank ==
    (AfterExport /\ RankInRange /\ FracInRange) =>
        /\ Printed = Min(p_rank, FloorLimit)
        /\ Exported = Min(p_rank, Total)
        /\ (Printed = Exported) <=> (Total * p_frac >= p_rank * FracDen)

\* C5, amended: the same two counts; they agree exactly when
\* total * frac >= rank or floor(total * frac) = total (as when frac = 1),
\* and differ otherwise.
C5_Limits ==
    (AfterExport /\ RankInRange /\ FracInRange) =>
        /\ Printed = Min(p_rank, FloorLimit)
        /\ Exported = Min(p_rank, Total)
        /\ (Printed = Exported) <=>
              (Total * p_frac >= p_rank * FracDen \/ FloorLimit = Total)

\* An export of more rows than the scope exit printed.
C5_Witness ==
    AfterExport /\ RankInRange /\ FracInRange /\ p_frac > 0 /\ Printed < Exported

\* The statistics entry a row was built from.
Source(row) == Stats[row.function[3]]

C7_ExportIdempotent ==
    [][(Finalized /\ p_ret'.op = "to_dataframe") =>
          /\ UNCHANGED <<profConfig, p_stats_data, p_pr, p_in, p_file, p_out,
                         p_events, p_exited>>
          /\ p_ret.op = "to_dataframe" =>
                p_ret'.result = p_ret.result /\ p_ret'.rows = p_ret.rows]_vars

\* A second to_dataframe() in a row that returned two rows or more.
C7_Witness ==
    AfterExport /\ p_ret.calls = 2 /\ p_ret.result = "DataFrame" /\ Exported >= 2

\* C8: an enabled instance goes idle -> capturing -> finalized.  Entry starts
\* the profiler and returns the instance.  Exit, however the body ended,
\* stops the profiler, then writes the raw statistics to fn exactly when fn
\* was given, then populates stats_data sorted by the sort key, then prints
\* the top effective_limit functions; afterwards the profiler is stopped,
\* stats_data is populated and the body's exception reaches the caller.
C8_Lifecycle ==
    p_enabled =>
        /\ (~p_in /\ ~p_exited) => p_pr = "unset" /\ p_stats_data = None
        /\ p_in => p_pr = "running" /\ p_events = <<"enable">>
        /\ p_ret.op = "__enter__" => p_ret.result = "self" /\ p_in
        /\ (~p_in /\ p_exited) =>
              /\ p_pr = "stopped"
              /\ p_stats_data # None
              /\ p_events[1] = "disable"
              /\ p_events = IF p_fn # None
                            THEN <<"disable", "dump_stats", "sort_stats", "print_stats">>
                            ELSE <<"disable", "sort_stats", "print_stats">>
              /\ p_file = IF p_fn # None THEN Some(Stats) ELSE None
              /\ Len(FcnList) = Total
              /\ \A k \in 1 .. Total : \E i \in 1 .. Total : FcnList[i] = Stats[k].func
              /\ \A i, j \in 1 .. Total : i < j =>
                    StatKey(p_sort, Stats[FcnList[i].line])
                        >= StatKey(p_sort, Stats[FcnList[j].line])
              /\ (RankInRange /\ FracInRange) =>
                    p_out = SubSeq(FcnList, 1, Min(p_rank, FloorLimit))
              /\ p_ret.op = "__exit__" => p_ret.propagates = p_ret.raised

\* An exit by exception of an enabled instance given a file name, that
\* printed fewer functions than it captured, in tottime order.
C8_Witness ==
    /\ AfterExit /\ p_ret.raised /\ p_ret.propagates /\ p_fn # None
    /\ p_sort = "tottime" /\ RankInRange /\ FracInRange
    /\ Printed = 1 /\ Total = 2
    /\ Stats[1].tottime < Stats[2].tottime

C10_Increments ==
    /\ coordinated => global_ops = g_since /\ ~g_lost /\ ~g_overwritten
    /\ (~coordinated /\ g_resets = 0) =>
          /\ global_ops <= g_total
          /\ g_lost <=> global_ops < g_total
    /\ AllDone => g_total = Cardinality(Callers) * IncsPerCaller

\* Uncoordinated callers, all increments done: an update was lost, and an
\* increment that had read the old value overwrote a reset().
C10_Witness ==
    /\ ~coordinated /\ AllDone /\ g_lost /\ g_overwritten
    /\ global_ops < g_total /\ global_ops > g_since

============================================================================
